---- MODULE Spec2Model ----
(***************************************************************************)
(* Open-Forum-API: the walk / feedback / comment request handlers of       *)
(* app/routers, over the tables of app/models.py.  One action per handler; *)
(* every handler runs behind the get_current_active_user dependency.       *)
(* resp holds the response of the request handled last.  sessions holds    *)
(* the requests in flight when two handlers run side by side, each with    *)
(* the row its database session fetched.                                   *)
(***************************************************************************)
EXTENDS Integers, Sequences, FiniteSets, TLC

VARIABLES users, walks, feedback, comments, resp, scenario, sessions

vars == <<users, walks, feedback, comments, resp, scenario, sessions>>
tables == <<users, walks, feedback, comments>>

(* Bounds of the model: rows per table. *)
MaxWalks == 1
MaxFeedback == 1
MaxComments == 1

NULL == 0

(* enums.py *)
UserRole == {"User", "Manager", "Executive", "Developer"}
WalkStatus == {"Created", "In-Progress", "Completed"}
FeedbackStatus == {"create", "Assigned", "In-Progress", "Successful", "Unsuccessful"}

(* The users table: one user per role, and one disabled account.  No       *)
(* handler writes it.                                                      *)
(* full_name is a nullable column: "" stands for None.                     *)
SeedUsers ==
  <<[username |-> "u1@example.com", full_name |-> "U1", role |-> "User",
     disabled |-> FALSE],
    [username |-> "u2@example.com", full_name |-> "U2", role |-> "Manager",
     disabled |-> FALSE],
    [username |-> "u3@example.com", full_name |-> "", role |-> "Executive",
     disabled |-> FALSE],
    [username |-> "u4@example.com", full_name |-> "U4", role |-> "Developer",
     disabled |-> FALSE],
    [username |-> "u5@example.com", full_name |-> "U5", role |-> "Developer",
     disabled |-> TRUE]>>

UserIds == DOMAIN users

(* The tags table: seeded, and written by no handler. *)
TagIds == {1, 2}

(* An id that no row of a table carries yet: the integer primary key.      *)
Max(S) == CHOOSE m \in S : \A x \in S : x <= m
NewId(table) == IF DOMAIN table = {} THEN 1 ELSE Max(DOMAIN table) + 1

(* db.add(row); db.commit() *)
Insert(table, row) ==
  [i \in DOMAIN table \cup {NewId(table)} |->
     IF i \in DOMAIN table THEN table[i] ELSE row]

(* db.delete(row); db.commit() *)
Delete(table, id) == [i \in DOMAIN table \ {id} |-> table[i]]

(* for key, value in update_data.items(): setattr(row, key, value)         *)
(* update_data is the payload's dict of the fields the request set; a key  *)
(* that is no column of the row (tag_ids) reaches no column.               *)
SetAttrs(row, update_data) ==
  [k \in DOMAIN row |-> IF k \in DOMAIN update_data THEN update_data[k] ELSE row[k]]

(* schemas.py: the fields of the update schemas. *)
(* the schema also declares creator_id *)
WalkUpdateFields_WithCreator ==
  {"walk_date", "whiteboard", "status", "owner_id", "creator_id"}

WalkUpdateFields == {"walk_date", "whiteboard", "status", "owner_id"}
(* the schema extends FeedbackBase, which declares is_anonymous *)
FeedbackUpdateFields_WithAnonymous ==
  {"title", "description", "status", "owner_id", "follow_up_note",
   "resolution_note", "tag_ids", "votes", "is_anonymous"}

FeedbackUpdateFields ==
  {"title", "description", "status", "owner_id", "follow_up_note",
   "resolution_note", "tag_ids"}

(* every key of the body reaches the setattr loop *)
model_dump_AllKeys(body, fields) == body

(* The body parsed into the schema (a key that is no field of the schema   *)
(* is ignored), then model_dump(exclude_unset=True): the fields the        *)
(* request set.                                                            *)
model_dump(body, fields) == [k \in DOMAIN body \cap fields |-> body[k]]

(* ---- the request handled last, and its response ---- *)
(* op: the handler; user: current_user; id: the row the path names, or the *)
(* new row of a successful create; parent: the parent row a create names;  *)
(* code, detail: the status and message; commit: db.commit() was reached.  *)
CreateResponse(op, u, parent, id, code, detail, commit) ==
  [op |-> op, user |-> u, id |-> id, parent |-> parent, code |-> code,
   detail |-> detail, commit |-> commit]

Response(op, u, id, code, detail, commit) ==
  CreateResponse(op, u, NULL, id, code, detail, commit)

(* raise HTTPException(status_code, detail): nothing was committed. *)
RaiseCreate(op, u, parent, code, detail) ==
  /\ resp' = CreateResponse(op, u, parent, NULL, code, detail, FALSE)
  /\ UNCHANGED tables

Raise(op, u, id, code, detail) ==
  /\ resp' = Response(op, u, id, code, detail, FALSE)
  /\ UNCHANGED tables

(* ---- auth.py ---- *)
(* A bearer token: signed with SECRET_KEY or not, and its "sub" claim ("" *)
(* when the payload has none).                                             *)
Tokens ==
  {[signed |-> TRUE, sub |-> users[i].username] : i \in UserIds}
    \cup {[signed |-> TRUE, sub |-> "ghost@example.com"],
          [signed |-> TRUE, sub |-> ""],
          [signed |-> FALSE, sub |-> "u1@example.com"]}

(* get_user(db, username): the ids of the users of that name, {} for None. *)
get_user(username) == {i \in UserIds : users[i].username = username}

(* get_current_user(token).  raised: the dependency raised                 *)
(* credentials_exception; otherwise it returned a value, which is a user   *)
(* (is_user, id) or, when get_user found none, the credentials_exception   *)
(* object itself (return, not raise).                                      *)
get_current_user(token) ==
  IF ~token.signed \/ token.sub = ""
    THEN [raised |-> TRUE, is_user |-> FALSE, id |-> NULL]
  ELSE IF get_user(token.sub) = {}
    THEN [raised |-> FALSE, is_user |-> FALSE, id |-> NULL]
  ELSE [raised |-> FALSE, is_user |-> TRUE,
        id |-> CHOOSE i \in get_user(token.sub) : TRUE]

(* the disabled flag is not read *)
Inactive_Never(u) == FALSE

(* auth.get_current_active_user *)
Inactive(u) == users[u].disabled

(* ---- routers/walks.py ---- *)
archive_walk_authorized(u, walk) ==
  LET is_admin == users[u].role = "Developer"
      is_creator_or_owner == walk.creator_id = u \/ walk.owner_id = u
  IN is_creator_or_owner \/ is_admin

archive_walk_already(walk) == walk.is_archived

(* mutant: the admin roles of update_feedback *)
update_walk_authorized_AdminRoles(u, db_walk) ==
  LET is_admin == users[u].role \in {"Manager", "Executive", "Developer"}
      is_creator_or_owner == db_walk.creator_id = u \/ db_walk.owner_id = u
  IN is_creator_or_owner \/ is_admin

update_walk_authorized(u, db_walk) ==
  LET is_admin == users[u].role = "Developer"
      is_creator_or_owner == db_walk.creator_id = u \/ db_walk.owner_id = u
  IN is_creator_or_owner \/ is_admin

(* the new owner is not looked up *)
owner_exists_Unchecked(update_data) == TRUE

(* owner_exists = db.query(UserModel).filter(UserModel.id == new_owner_id).first() *)
owner_exists(update_data) ==
  "owner_id" \in DOMAIN update_data => update_data.owner_id \in UserIds

create_new_walk(u, walk_data) ==
  IF Inactive(u) THEN Raise("create_new_walk", u, NULL, 400, "Inactive user")
  ELSE
    LET new_walk == [walk_date |-> walk_data.walk_date,
                     whiteboard |-> walk_data.whiteboard,
                     status |-> walk_data.status,
                     creator_id |-> u, owner_id |-> u,
                     is_archived |-> FALSE]
    IN /\ walks' = Insert(walks, new_walk)
       /\ resp' = Response("create_new_walk", u, NewId(walks), 201, "", TRUE)
       /\ UNCHANGED <<users, feedback, comments>>

(* the role is checked before the row is looked up *)
archive_walk_RoleFirst(u, walk_id) ==
  IF Inactive(u) THEN Raise("archive_walk", u, walk_id, 400, "Inactive user")
  ELSE IF users[u].role # "Developer"
          /\ (walk_id \in DOMAIN walks => ~archive_walk_authorized(u, walks[walk_id]))
    THEN Raise("archive_walk", u, walk_id, 403, "Not authorized to archive this walk")
  ELSE IF walk_id \notin DOMAIN walks
    THEN Raise("archive_walk", u, walk_id, 404, "Walk not found")
  ELSE IF archive_walk_already(walks[walk_id])
    THEN /\ resp' = Response("archive_walk", u, walk_id, 200, "Walk already archived", FALSE)
         /\ UNCHANGED tables
  ELSE /\ walks' = [walks EXCEPT ![walk_id].is_archived = TRUE]
       /\ resp' = Response("archive_walk", u, walk_id, 200, "Walk archived successfully", TRUE)
       /\ UNCHANGED <<users, feedback, comments>>

archive_walk(u, walk_id) ==
  IF Inactive(u) THEN Raise("archive_walk", u, walk_id, 400, "Inactive user")
  ELSE IF walk_id \notin DOMAIN walks
    THEN Raise("archive_walk", u, walk_id, 404, "Walk not found")
  ELSE IF ~archive_walk_authorized(u, walks[walk_id])
    THEN Raise("archive_walk", u, walk_id, 403, "Not authorized to archive this walk")
  ELSE IF archive_walk_already(walks[walk_id])
    THEN /\ resp' = Response("archive_walk", u, walk_id, 200, "Walk already archived", FALSE)
         /\ UNCHANGED tables
  ELSE /\ walks' = [walks EXCEPT ![walk_id].is_archived = TRUE]
       /\ resp' = Response("archive_walk", u, walk_id, 200, "Walk archived successfully", TRUE)
       /\ UNCHANGED <<users, feedback, comments>>

update_walk(u, walk_id, walk_update_data) ==
  LET update_data == model_dump(walk_update_data, WalkUpdateFields) IN
  IF Inactive(u) THEN Raise("update_walk", u, walk_id, 400, "Inactive user")
  ELSE IF walk_id \notin DOMAIN walks
    THEN Raise("update_walk", u, walk_id, 404, "Walk not found")
  ELSE IF ~update_walk_authorized(u, walks[walk_id])
    THEN Raise("update_walk", u, walk_id, 403, "Not authorized to update this walk")
  ELSE IF ~owner_exists(update_data)
    THEN Raise("update_walk", u, walk_id, 400, "User with owner_id does not exist.")
  ELSE /\ walks' = [walks EXCEPT ![walk_id] = SetAttrs(@, update_data)]
       /\ resp' = Response("update_walk", u, walk_id, 200, "", TRUE)
       /\ UNCHANGED <<users, feedback, comments>>

(* DELETE /walks/{walk_id}: the router declares GET and PUT on this path   *)
(* and no DELETE route, so the request is answered 405 before any          *)
(* dependency or handler runs.                                             *)
delete_walk(u, walk_id) ==
  Raise("delete_walk", u, walk_id, 405, "Method Not Allowed")

get_specific_walk(u, walk_id) ==
  IF Inactive(u) THEN Raise("get_specific_walk", u, walk_id, 400, "Inactive user")
  ELSE IF walk_id \notin DOMAIN walks
    THEN Raise("get_specific_walk", u, walk_id, 404, "Walk not found")
  ELSE /\ resp' = Response("get_specific_walk", u, walk_id, 200, "", FALSE)
       /\ UNCHANGED tables

(* ---- routers/users.py ---- *)
(* filter((creator_id == current_user.id) | (owner_id == current_user.id)) *)
my_rows(table, u) ==
  {i \in DOMAIN table : table[i].creator_id = u \/ table[i].owner_id = u}

(* GET /users/me/ depends on get_current_user alone and returns            *)
(* current_user under response_model=User: a value that is no user fails   *)
(* the response validation, after the handler ran with it.                 *)
read_users_me(token) ==
  LET current_user == get_current_user(token) IN
  IF current_user.raised
    THEN Raise("read_users_me", NULL, NULL, 401, "Could not validate credentials")
  ELSE IF ~current_user.is_user
    THEN Raise("read_users_me", NULL, NULL, 500, "Internal Server Error")
  ELSE /\ resp' = Response("read_users_me", current_user.id, NULL, 200, "", FALSE)
       /\ UNCHANGED tables

read_my_walks(u) ==
  IF Inactive(u) THEN Raise("read_my_walks", u, NULL, 400, "Inactive user")
  ELSE /\ resp' = Response("read_my_walks", u, NULL, 200, "", FALSE)
       /\ UNCHANGED tables

read_my_feedback(u) ==
  IF Inactive(u) THEN Raise("read_my_feedback", u, NULL, 400, "Inactive user")
  ELSE /\ resp' = Response("read_my_feedback", u, NULL, 200, "", FALSE)
       /\ UNCHANGED tables

(* ---- routers/feedback.py ---- *)
(* db.query(WalkModel).filter(id == walk_id, is_archived == False).first() *)
(* mutant: the query does not filter on is_archived *)
active_walk_found_AnyWalk(walk_id) == walk_id \in DOMAIN walks

active_walk_found(walk_id) ==
  walk_id \in DOMAIN walks /\ ~walks[walk_id].is_archived

(* tags = db.query(TagModel).filter(TagModel.id.in_(tag_ids)).all()        *)
(* len(tags) != len(set(tag_ids))                                          *)
TagsOf(tag_ids) == {tag_ids[i] : i \in DOMAIN tag_ids} \cap TagIds
(* a listed id that names no tag is skipped *)
tags_valid_Skipped(tag_ids) == TRUE

tags_valid(tag_ids) ==
  Cardinality(TagsOf(tag_ids)) = Cardinality({tag_ids[i] : i \in DOMAIN tag_ids})

(* mutant: the admin roles of update_feedback *)
archive_feedback_authorized_AdminRoles(u, fb) ==
  LET is_admin == users[u].role \in {"Manager", "Executive", "Developer"}
      is_creator_or_owner == fb.creator_id = u \/ fb.owner_id = u
  IN is_creator_or_owner \/ is_admin

archive_feedback_authorized(u, fb) ==
  LET is_admin == users[u].role = "Developer"
      is_creator_or_owner == fb.creator_id = u \/ fb.owner_id = u
  IN is_creator_or_owner \/ is_admin

(* mutant: no short-circuit; the flag is set and committed again *)
archive_feedback_already_Never(fb) == FALSE

archive_feedback_already(fb) == fb.is_archived

(* mutant: no archived check, as in update_walk *)
update_feedback_archived_Unchecked(db_feedback) == FALSE

update_feedback_archived(db_feedback) == db_feedback.is_archived

(* mutant: the creator counts, as in archive_feedback *)
update_feedback_authorized_Creator(u, db_feedback) ==
  LET is_admin == users[u].role \in {"Manager", "Executive", "Developer"}
      is_owner == db_feedback.creator_id = u \/ db_feedback.owner_id = u
  IN is_owner \/ is_admin

update_feedback_authorized(u, db_feedback) ==
  LET is_admin == users[u].role \in {"Manager", "Executive", "Developer"}
      is_owner == db_feedback.owner_id = u
  IN is_owner \/ is_admin

(* db.commit() of a row whose owner_id names no user: the foreign key      *)
(* users.id is not enforced by the default sqlite engine (no PRAGMA        *)
(* foreign_keys) and is enforced by a postgres DATABASE_URL, where the     *)
(* commit raises IntegrityError.                                           *)
foreign_key_dangles(owner_id) == owner_id \notin UserIds \cup {NULL}

create_new_feedback(u, feedback_data) ==
  IF Inactive(u)
    THEN RaiseCreate("create_new_feedback", u, feedback_data.walk_id, 400, "Inactive user")
  ELSE IF ~active_walk_found(feedback_data.walk_id)
    THEN RaiseCreate("create_new_feedback", u, feedback_data.walk_id, 404,
                     "Active walk not found.")
  ELSE IF feedback_data.tags_id # <<>> /\ ~tags_valid(feedback_data.tags_id)
    THEN RaiseCreate("create_new_feedback", u, feedback_data.walk_id, 400,
                     "One or more provided tag IDs are invalid.")
  ELSE
    LET new_feedback == [title |-> feedback_data.title,
                         status |-> feedback_data.status,
                         votes |-> feedback_data.votes,
                         is_anonymous |-> feedback_data.is_anonymous,
                         walk_id |-> feedback_data.walk_id,
                         owner_id |-> feedback_data.owner_id,
                         creator_id |-> u,
                         tags |-> TagsOf(feedback_data.tags_id),
                         is_archived |-> FALSE]
    IN \/ /\ feedback' = Insert(feedback, new_feedback)
          /\ resp' = CreateResponse("create_new_feedback", u, feedback_data.walk_id,
                                  NewId(feedback), 201, "", TRUE)
          /\ UNCHANGED <<users, walks, comments>>
       \/ /\ foreign_key_dangles(feedback_data.owner_id)
          /\ RaiseCreate("create_new_feedback", u, feedback_data.walk_id, 500,
                         "Internal Server Error")

archive_feedback(u, feedback_id) ==
  IF Inactive(u) THEN Raise("archive_feedback", u, feedback_id, 400, "Inactive user")
  ELSE IF feedback_id \notin DOMAIN feedback
    THEN Raise("archive_feedback", u, feedback_id, 404, "Feedback not found")
  ELSE IF ~archive_feedback_authorized(u, feedback[feedback_id])
    THEN Raise("archive_feedback", u, feedback_id, 403,
               "Not authorized to archive this feedback")
  ELSE IF archive_feedback_already(feedback[feedback_id])
    THEN /\ resp' = Response("archive_feedback", u, feedback_id, 200,
                             "Feedback already archived", FALSE)
         /\ UNCHANGED tables
  ELSE /\ feedback' = [feedback EXCEPT ![feedback_id].is_archived = TRUE]
       /\ resp' = Response("archive_feedback", u, feedback_id, 200,
                           "Feedback archived successfully", TRUE)
       /\ UNCHANGED <<users, walks, comments>>

update_feedback(u, feedback_id, feedback_update_data) ==
  LET update_data == model_dump(feedback_update_data, FeedbackUpdateFields) IN
  IF Inactive(u) THEN Raise("update_feedback", u, feedback_id, 400, "Inactive user")
  ELSE IF feedback_id \notin DOMAIN feedback
    THEN Raise("update_feedback", u, feedback_id, 404, "Feedback not found")
  ELSE IF update_feedback_archived(feedback[feedback_id])
    THEN Raise("update_feedback", u, feedback_id, 400, "Cannot modify archived feedback.")
  ELSE IF ~update_feedback_authorized(u, feedback[feedback_id])
    THEN Raise("update_feedback", u, feedback_id, 403,
               "Not authorized to update this feedback")
  ELSE IF ~owner_exists(update_data)
    THEN Raise("update_feedback", u, feedback_id, 400, "User with owner_id does not exist.")
  ELSE /\ feedback' = [feedback EXCEPT ![feedback_id] = SetAttrs(@, update_data)]
       /\ resp' = Response("update_feedback", u, feedback_id, 200, "", TRUE)
       /\ UNCHANGED <<users, walks, comments>>

(* the query does not filter on is_archived *)
get_specific_feedback_AnyRow(u, feedback_id) ==
  IF Inactive(u)
    THEN Raise("get_specific_feedback", u, feedback_id, 400, "Inactive user")
  ELSE IF feedback_id \notin DOMAIN feedback
    THEN Raise("get_specific_feedback", u, feedback_id, 404, "Feedback not found")
  ELSE /\ resp' = Response("get_specific_feedback", u, feedback_id, 200, "", FALSE)
       /\ UNCHANGED tables

(* The feedback query of get_specific_feedback: unarchived rows only. *)
get_specific_feedback(u, feedback_id) ==
  IF Inactive(u)
    THEN Raise("get_specific_feedback", u, feedback_id, 400, "Inactive user")
  ELSE IF feedback_id \notin DOMAIN feedback \/ feedback[feedback_id].is_archived
    THEN Raise("get_specific_feedback", u, feedback_id, 404, "Feedback not found")
  ELSE /\ resp' = Response("get_specific_feedback", u, feedback_id, 200, "", FALSE)
       /\ UNCHANGED tables

(* ---- routers/comments.py ---- *)
(* db.query(FeedbackModel).filter(id == feedback_id, is_archived == False).first() *)
(* the query also asks for an unarchived walk *)
active_feedback_found_WalkActive(feedback_id) ==
  /\ feedback_id \in DOMAIN feedback
  /\ ~feedback[feedback_id].is_archived
  /\ ~walks[feedback[feedback_id].walk_id].is_archived

active_feedback_found(feedback_id) ==
  feedback_id \in DOMAIN feedback /\ ~feedback[feedback_id].is_archived

update_comment_authorized(u, db_comment) == db_comment.author_id = u

(* db_comment.feedback.is_archived: the parent row as it is now *)
(* mutant: no archived check *)
update_comment_archived_Unchecked(db_comment) == FALSE

update_comment_archived(db_comment) == feedback[db_comment.feedback_id].is_archived

(* the admin roles of update_feedback *)
delete_comment_authorized_AdminRoles(u, db_comment) ==
  LET is_author == db_comment.author_id = u
      is_developer == users[u].role \in {"Manager", "Executive", "Developer"}
  IN is_author \/ is_developer

delete_comment_authorized(u, db_comment) ==
  LET is_author == db_comment.author_id = u
      is_developer == users[u].role = "Developer"
  IN is_author \/ is_developer

create_new_comment(u, feedback_id, comment_data) ==
  IF Inactive(u)
    THEN RaiseCreate("create_new_comment", u, feedback_id, 400, "Inactive user")
  ELSE IF ~active_feedback_found(feedback_id)
    THEN RaiseCreate("create_new_comment", u, feedback_id, 404,
                     "Active feedback not found.")
  ELSE
    LET new_comment == [text |-> comment_data.text,
                        feedback_id |-> feedback_id,
                        author_id |-> u]
    IN /\ comments' = Insert(comments, new_comment)
       /\ resp' = CreateResponse("create_new_comment", u, feedback_id,
                               NewId(comments), 201, "", TRUE)
       /\ UNCHANGED <<users, walks, feedback>>

update_comment(u, comment_id, comment_data) ==
  IF Inactive(u) THEN Raise("update_comment", u, comment_id, 400, "Inactive user")
  ELSE IF comment_id \notin DOMAIN comments
    THEN Raise("update_comment", u, comment_id, 404, "Comment not found")
  ELSE IF ~update_comment_authorized(u, comments[comment_id])
    THEN Raise("update_comment", u, comment_id, 403,
               "Not authorized to update this comment")
  ELSE IF update_comment_archived(comments[comment_id])
    THEN Raise("update_comment", u, comment_id, 400,
               "Cannot modify comments on an archived feedback item")
  ELSE /\ comments' = [comments EXCEPT ![comment_id].text = comment_data.text]
       /\ resp' = Response("update_comment", u, comment_id, 200, "", TRUE)
       /\ UNCHANGED <<users, walks, feedback>>

delete_comment(u, comment_id) ==
  IF Inactive(u) THEN Raise("delete_comment", u, comment_id, 400, "Inactive user")
  ELSE IF comment_id \notin DOMAIN comments
    THEN Raise("delete_comment", u, comment_id, 404, "Comment not found")
  ELSE IF ~delete_comment_authorized(u, comments[comment_id])
    THEN Raise("delete_comment", u, comment_id, 403,
               "Not authorized to delete this comment")
  ELSE /\ comments' = Delete(comments, comment_id)
       /\ resp' = Response("delete_comment", u, comment_id, 204, "", TRUE)
       /\ UNCHANGED <<users, walks, feedback>>

(* ---- schemas.py: the Feedback output view ---- *)
(* An optional relation is the set of the rows it loads: {} is None. *)
UserOf(user_id) == IF user_id \in UserIds THEN {users[user_id]} ELSE {}

(* Feedback.model_validate(row), from_attributes: columns and relations. *)
from_attributes(id, row) ==
  [id |-> id, title |-> row.title, status |-> row.status, votes |-> row.votes,
   is_anonymous |-> row.is_anonymous, walk_id |-> row.walk_id,
   creator_id |-> row.creator_id, owner_id |-> row.owner_id,
   creator |-> UserOf(row.creator_id), owner |-> UserOf(row.owner_id),
   tags |-> row.tags,
   comments |-> {c \in DOMAIN comments : comments[c].feedback_id = id}]

mask_anonymous_creator(self) ==
  IF self.is_anonymous THEN [self EXCEPT !.creator = {}] ELSE self

(* the anonymous branch is missing *)
creator_name_Unmasked(self) ==
  IF \E c \in self.creator : c.full_name # ""
    THEN (CHOOSE c \in self.creator : TRUE).full_name
  ELSE IF \E c \in self.creator : c.username # ""
    THEN (CHOOSE c \in self.creator : TRUE).username
  ELSE "Unknown"

creator_name(self) ==
  IF self.is_anonymous THEN "Anonymous"
  ELSE IF \E c \in self.creator : c.full_name # ""
    THEN (CHOOSE c \in self.creator : TRUE).full_name
  ELSE IF \E c \in self.creator : c.username # ""
    THEN (CHOOSE c \in self.creator : TRUE).username
  ELSE "Unknown"

(* None is "" here: owner_name returns no empty name. *)
owner_name(self) ==
  IF \E o \in self.owner : o.full_name # ""
    THEN (CHOOSE o \in self.owner : TRUE).full_name
  ELSE IF \E o \in self.owner : o.username # ""
    THEN (CHOOSE o \in self.owner : TRUE).username
  ELSE ""

(* Serialization: creator and owner are Field(exclude=True); the computed  *)
(* fields are added.                                                       *)
serialize(self) ==
  [k \in (DOMAIN self \ {"creator", "owner"}) \cup {"creator_name", "owner_name"} |->
     IF k = "creator_name" THEN creator_name(self)
     ELSE IF k = "owner_name" THEN owner_name(self)
     ELSE self[k]]

(* response_model=FeedbackSchema: the output view of a feedback row. *)
FeedbackSchema(id, row) == serialize(mask_anonymous_creator(from_attributes(id, row)))

(* The Feedback output views in the body of the response held in resp: the *)
(* row itself, the rows of a listing, or the rows nested in a Walk view    *)
(* (Walk.feedback); a StatusResponse, a Comment and a fault carry none.    *)
RenderedFeedbackIds ==
  IF resp.code \notin {200, 201} THEN {}
  ELSE IF resp.op \in {"create_new_feedback", "get_specific_feedback", "update_feedback"}
    THEN {resp.id}
  ELSE IF resp.op = "read_my_feedback" THEN my_rows(feedback, resp.user)
  ELSE IF resp.op \in {"create_new_walk", "get_specific_walk", "update_walk"}
    THEN {f \in DOMAIN feedback : feedback[f].walk_id = resp.id}
  ELSE IF resp.op = "read_my_walks"
    THEN {f \in DOMAIN feedback : feedback[f].walk_id \in my_rows(walks, resp.user)}
  ELSE {}

RenderedFeedback == {FeedbackSchema(f, feedback[f]) : f \in RenderedFeedbackIds}

(* ---- request inputs ---- *)
WalkCreateInputs ==
  {[walk_date |-> "d1", whiteboard |-> NULL, status |-> "Created"]}

(* The JSON body of a PUT /walks/{walk_id}: the keys the request sent. *)
WalkUpdateInputs ==
  {<<>>,
   [owner_id |-> 2, status |-> "Completed", is_archived |-> FALSE,
    creator_id |-> 3],
   [owner_id |-> 9, status |-> "In-Progress", whiteboard |-> "w"]}

(* The JSON body of a POST /feedback/: the plain payload, and the payloads  *)
(* that differ from it in one field.                                       *)
FeedbackCreate ==
  [title |-> "t1", status |-> "create", votes |-> 0, is_anonymous |-> FALSE,
   walk_id |-> 1, owner_id |-> NULL, tags_id |-> <<>>]

(* Payloads that list tags, name an owner no user has, or carry a negative *)
(* vote count.                                                             *)
FeedbackCreateReferenceInputs ==
  {[FeedbackCreate EXCEPT !.tags_id = <<1, 1>>],
   [FeedbackCreate EXCEPT !.tags_id = <<1, 2>>],
   [FeedbackCreate EXCEPT !.tags_id = <<2, 9>>],
   [FeedbackCreate EXCEPT !.owner_id = 9],
   [FeedbackCreate EXCEPT !.votes = -1]}

FeedbackCreateInputs ==
  FeedbackCreateReferenceInputs \cup
  {FeedbackCreate,
   [FeedbackCreate EXCEPT !.owner_id = 1],
   [FeedbackCreate EXCEPT !.is_anonymous = TRUE],
   [FeedbackCreate EXCEPT !.tags_id = <<9>>]}
    \cup {[FeedbackCreate EXCEPT !.walk_id = w] : w \in 2..(MaxWalks + 1)}

(* The JSON body of a PUT /feedback/{feedback_id}. *)
FeedbackUpdateInputs ==
  {<<>>,
   [owner_id |-> 1, is_archived |-> FALSE, creator_id |-> 3, walk_id |-> 2,
    is_anonymous |-> TRUE],
   [tag_ids |-> <<1>>, is_anonymous |-> FALSE],
   [owner_id |-> 9, title |-> "t2"],
   [tag_ids |-> <<2>>, votes |-> -1],
   [tag_ids |-> <<9>>]}

CommentInputs == {[text |-> "c1"], [text |-> "c2"]}

(* ---- fixtures: the database a scenario starts from ---- *)
(* tests/conftest.py create_test_walk(db, user) *)
create_test_walk(user) ==
  [walk_date |-> "d1", whiteboard |-> NULL, status |-> "Created",
   creator_id |-> user, owner_id |-> user, is_archived |-> FALSE]

(* tests/routers/test_comments.py create_test_feedback(db, walk, creator, owner) *)
create_test_feedback(walk_id, creator, owner) ==
  [title |-> "t1", status |-> "create", votes |-> 0, is_anonymous |-> FALSE,
   walk_id |-> walk_id, owner_id |-> owner, creator_id |-> creator,
   tags |-> {}, is_archived |-> FALSE]

NoResponse == Response("none", NULL, NULL, 0, "", FALSE)

(* get_db: one database session per request; Slots are the two requests    *)
(* that run side by side.  A request is idle before its handler starts,    *)
(* fetched after the handler's query, checked after its checks passed and  *)
(* done after its response.                                                *)
Slots == {1, 2}

SessionLocal ==
  [pc |-> "idle", op |-> "none", user |-> NULL, id |-> NULL, body |-> <<>>,
   row |-> <<>>]

NoSessions == [s \in Slots |-> SessionLocal]

Init ==
  /\ users = SeedUsers
  /\ resp = NoResponse
  /\ sessions = NoSessions
  /\ \/ /\ scenario = "walks"
        /\ walks = <<>> /\ feedback = <<>> /\ comments = <<>>
     \/ /\ scenario = "feedback"
        /\ walks = <<create_test_walk(1)>> /\ feedback = <<>> /\ comments = <<>>
     \/ /\ scenario \in {"views", "payloads"}
        /\ walks = <<create_test_walk(1)>> /\ feedback = <<>> /\ comments = <<>>
     \/ /\ scenario = "comments"
        /\ walks = <<create_test_walk(1)>>
        /\ feedback = <<create_test_feedback(1, 1, 2)>>
        /\ comments = <<>>

(* The handlers of one router read and write that router's table, and read *)
(* of the parent table only whether the parent row exists and is archived. *)
(* A scenario sends the requests of one router, and archives the rows      *)
(* above it; the views scenario creates feedback, anonymous or not, and    *)
(* sends the reads and listings that render it; the payloads scenario      *)
(* sends the feedback bodies that list tags, name an unknown owner or      *)
(* carry negative votes.                                                   *)
(* The scenarios that send a feedback create payload / update body. *)
CreateSentIn(d) ==
  IF d.is_anonymous THEN {"views", "payloads"}
  ELSE IF d \in FeedbackCreateReferenceInputs THEN {"payloads"}
  ELSE {"feedback", "views"}

UpdateSentIn(d) ==
  IF "tag_ids" \in DOMAIN d THEN {"payloads"} ELSE {"feedback"}

(* A request handled in one step: no other request is in flight. *)
Requests(scenarios) ==
  scenario \in scenarios /\ UNCHANGED <<scenario, sessions>>

CreateWalk ==
  /\ Requests({"walks"})
  /\ \E u \in UserIds, d \in WalkCreateInputs :
       /\ Cardinality(DOMAIN walks) < MaxWalks
       /\ create_new_walk(u, d)

ArchiveWalk ==
  /\ Requests({"walks", "feedback", "comments"})
  /\ \E u \in UserIds, id \in 1..(MaxWalks + 1) : archive_walk(u, id)

UpdateWalk ==
  /\ Requests({"walks"})
  /\ \E u \in UserIds, id \in 1..(MaxWalks + 1), d \in WalkUpdateInputs :
       update_walk(u, id, d)

DeleteWalk ==
  /\ Requests({"walks"})
  /\ \E u \in UserIds, id \in 1..(MaxWalks + 1) : delete_walk(u, id)

ReadUsersMe ==
  /\ Requests({"views"})
  /\ \E token \in Tokens : read_users_me(token)

GetWalk ==
  /\ Requests({"views"})
  /\ \E u \in UserIds, id \in 1..(MaxWalks + 1) : get_specific_walk(u, id)

ReadMyWalks ==
  /\ Requests({"views"})
  /\ \E u \in UserIds : read_my_walks(u)

GetFeedback ==
  /\ Requests({"views"})
  /\ \E u \in UserIds, id \in 1..(MaxFeedback + 1) : get_specific_feedback(u, id)

ReadMyFeedback ==
  /\ Requests({"views"})
  /\ \E u \in UserIds : read_my_feedback(u)

CreateFeedback ==
  /\ Requests({"feedback", "views", "payloads"})
  /\ \E u \in UserIds, d \in FeedbackCreateInputs :
       /\ Cardinality(DOMAIN feedback) < MaxFeedback
       /\ scenario \in CreateSentIn(d)
       /\ create_new_feedback(u, d)

ArchiveFeedback ==
  /\ Requests({"feedback", "comments", "views"})
  /\ \E u \in UserIds, id \in 1..(MaxFeedback + 1) : archive_feedback(u, id)

UpdateFeedback ==
  /\ Requests({"feedback", "payloads"})
  /\ \E u \in UserIds, id \in 1..(MaxFeedback + 1), d \in FeedbackUpdateInputs :
       /\ scenario \in UpdateSentIn(d)
       /\ update_feedback(u, id, d)

CreateComment ==
  /\ Requests({"comments"})
  /\ \E u \in UserIds, f \in 1..(MaxFeedback + 1), d \in CommentInputs :
       /\ NewId(comments) <= MaxComments
       /\ create_new_comment(u, f, d)

UpdateComment ==
  /\ Requests({"comments"})
  /\ \E u \in UserIds, id \in 1..(MaxComments + 1), d \in CommentInputs :
       update_comment(u, id, d)

DeleteComment ==
  /\ Requests({"comments"})
  /\ \E u \in UserIds, id \in 1..(MaxComments + 1) : delete_comment(u, id)

Next ==
  \/ CreateWalk \/ ArchiveWalk \/ UpdateWalk
  \/ CreateFeedback \/ ArchiveFeedback \/ UpdateFeedback
  \/ CreateComment \/ UpdateComment \/ DeleteComment
  \/ GetWalk \/ ReadMyWalks \/ GetFeedback \/ ReadMyFeedback
  \/ DeleteWalk \/ ReadUsersMe

Spec == Init /\ [][Next]_vars

(* ---- two requests side by side ---- *)
(* The handlers of comments.py and feedback.py that write a row run as the *)
(* statements they are: the query that fetches the row into the request's  *)
(* session, the checks on the fetched row, and the assignment with         *)
(* db.commit().  Between the steps of one request the other may take       *)
(* steps: each request has its own session (database.py get_db) and no     *)
(* handler locks or re-reads its row.                                      *)

(* tests/routers/test_comments.py create_test_comment(db, feedback, author) *)
create_test_comment(feedback_id, author) ==
  [text |-> "c0", feedback_id |-> feedback_id, author_id |-> author]

RaceInit ==
  /\ users = SeedUsers
  /\ resp = NoResponse
  /\ scenario = "race"
  /\ sessions = NoSessions
  /\ walks = <<create_test_walk(1)>>
  /\ feedback = <<create_test_feedback(1, 1, 2)>>
  /\ comments = <<create_test_comment(1, 1)>>

(* db.close(): the request is over. *)
close(s) ==
  /\ sessions' = [sessions EXCEPT ![s] = [SessionLocal EXCEPT !.pc = "done"]]
  /\ UNCHANGED scenario

(* db.query(Model).filter(Model.id == id).first(), behind the dependency   *)
(* get_current_active_user: the row enters the session, or the handler     *)
(* raises 404.                                                             *)
first(s, op, table, not_found, u, id, body) ==
  /\ sessions[s].pc = "idle"
  /\ IF Inactive(u) THEN Raise(op, u, id, 400, "Inactive user") /\ close(s)
     ELSE IF id \notin DOMAIN table THEN Raise(op, u, id, 404, not_found) /\ close(s)
     ELSE /\ sessions' = [sessions EXCEPT ![s] =
                            [pc |-> "fetched", op |-> op, user |-> u, id |-> id,
                             body |-> body, row |-> table[id]]]
          /\ UNCHANGED <<tables, resp, scenario>>

(* The handler of session s stands after its query / after its checks. *)
fetched(s, op) == sessions[s].pc = "fetched" /\ sessions[s].op = op
checked(s, op) == sessions[s].pc = "checked" /\ sessions[s].op = op

(* The checks passed: the handler goes on to its assignment. *)
passed(s) ==
  /\ sessions' = [sessions EXCEPT ![s].pc = "checked"]
  /\ UNCHANGED <<tables, resp, scenario>>

(* The flush of db.commit(): UPDATE ... WHERE id = :id, of the columns     *)
(* whose value the handler changed on the fetched row.                     *)
dirty(row, update_data) ==
  [k \in {c \in DOMAIN update_data \cap DOMAIN row : update_data[c] # row[c]} |->
     update_data[k]]

(* The UPDATE matches no row (the ORM raises StaleDataError), or           *)
(* db.refresh finds none: no handler catches either.                       *)
stale(table, id) == id \notin DOMAIN table

(* update_comment *)
update_comment_first(s, u, comment_id, comment_data) ==
  first(s, "update_comment", comments, "Comment not found", u, comment_id,
        comment_data)

update_comment_checks(s) ==
  LET u == sessions[s].user
      comment_id == sessions[s].id
      db_comment == sessions[s].row
  IN /\ fetched(s, "update_comment")
     /\ IF ~update_comment_authorized(u, db_comment)
          THEN Raise("update_comment", u, comment_id, 403,
                     "Not authorized to update this comment") /\ close(s)
        ELSE IF update_comment_archived(db_comment)
          THEN Raise("update_comment", u, comment_id, 400,
                     "Cannot modify comments on an archived feedback item") /\ close(s)
        ELSE passed(s)

update_comment_commit(s) ==
  LET u == sessions[s].user
      comment_id == sessions[s].id
      db_comment == sessions[s].row
      comment_data == sessions[s].body
  IN /\ checked(s, "update_comment")
     /\ close(s)
     /\ IF stale(comments, comment_id)
          THEN Raise("update_comment", u, comment_id, 500, "Internal Server Error")
        ELSE /\ comments' = [comments EXCEPT ![comment_id] =
                               SetAttrs(@, dirty(db_comment, comment_data))]
             /\ resp' = Response("update_comment", u, comment_id, 200, "", TRUE)
             /\ UNCHANGED <<users, walks, feedback>>

(* delete_comment *)
delete_comment_first(s, u, comment_id) ==
  first(s, "delete_comment", comments, "Comment not found", u, comment_id, <<>>)

delete_comment_checks(s) ==
  LET u == sessions[s].user
      comment_id == sessions[s].id
      db_comment == sessions[s].row
  IN /\ fetched(s, "delete_comment")
     /\ IF ~delete_comment_authorized(u, db_comment)
          THEN Raise("delete_comment", u, comment_id, 403,
                     "Not authorized to delete this comment") /\ close(s)
        ELSE passed(s)

(* DELETE ... WHERE id = :id: a row that is gone already is a warning of   *)
(* the ORM, and the handler returns None.                                  *)
delete_comment_commit(s) ==
  LET u == sessions[s].user
      comment_id == sessions[s].id
  IN /\ checked(s, "delete_comment")
     /\ close(s)
     /\ comments' = Delete(comments, comment_id)
     /\ resp' = Response("delete_comment", u, comment_id, 204, "", TRUE)
     /\ UNCHANGED <<users, walks, feedback>>

(* update_feedback *)
update_feedback_first(s, u, feedback_id, feedback_update_data) ==
  first(s, "update_feedback", feedback, "Feedback not found", u, feedback_id,
        feedback_update_data)

update_feedback_checks(s) ==
  LET u == sessions[s].user
      feedback_id == sessions[s].id
      db_feedback == sessions[s].row
      update_data == model_dump(sessions[s].body, FeedbackUpdateFields)
  IN /\ fetched(s, "update_feedback")
     /\ IF update_feedback_archived(db_feedback)
          THEN Raise("update_feedback", u, feedback_id, 400,
                     "Cannot modify archived feedback.") /\ close(s)
        ELSE IF ~update_feedback_authorized(u, db_feedback)
          THEN Raise("update_feedback", u, feedback_id, 403,
                     "Not authorized to update this feedback") /\ close(s)
        ELSE IF ~owner_exists(update_data)
          THEN Raise("update_feedback", u, feedback_id, 400,
                     "User with owner_id does not exist.") /\ close(s)
        ELSE passed(s)

update_feedback_commit(s) ==
  LET u == sessions[s].user
      feedback_id == sessions[s].id
      db_feedback == sessions[s].row
      update_data == model_dump(sessions[s].body, FeedbackUpdateFields)
  IN /\ checked(s, "update_feedback")
     /\ close(s)
     /\ feedback' = [feedback EXCEPT ![feedback_id] =
                       SetAttrs(@, dirty(db_feedback, update_data))]
     /\ resp' = Response("update_feedback", u, feedback_id, 200, "", TRUE)
     /\ UNCHANGED <<users, walks, comments>>

(* archive_feedback *)
archive_feedback_first(s, u, feedback_id) ==
  first(s, "archive_feedback", feedback, "Feedback not found", u, feedback_id, <<>>)

archive_feedback_checks(s) ==
  LET u == sessions[s].user
      feedback_id == sessions[s].id
      fb == sessions[s].row
  IN /\ fetched(s, "archive_feedback")
     /\ IF ~archive_feedback_authorized(u, fb)
          THEN Raise("archive_feedback", u, feedback_id, 403,
                     "Not authorized to archive this feedback") /\ close(s)
        ELSE IF archive_feedback_already(fb)
          THEN /\ resp' = Response("archive_feedback", u, feedback_id, 200,
                                   "Feedback already archived", FALSE)
               /\ UNCHANGED tables
               /\ close(s)
        ELSE passed(s)

archive_feedback_commit(s) ==
  LET u == sessions[s].user
      feedback_id == sessions[s].id
  IN /\ checked(s, "archive_feedback")
     /\ close(s)
     /\ feedback' = [feedback EXCEPT ![feedback_id].is_archived = TRUE]
     /\ resp' = Response("archive_feedback", u, feedback_id, 200,
                         "Feedback archived successfully", TRUE)
     /\ UNCHANGED <<users, walks, comments>>

(* The bodies the racing feedback updates carry. *)
RaceUpdateInputs == {d \in FeedbackUpdateInputs : "feedback" \in UpdateSentIn(d)}

UpdateCommentFirst ==
  \E s \in Slots, u \in UserIds, id \in 1..(MaxComments + 1), d \in CommentInputs :
    update_comment_first(s, u, id, d)

UpdateCommentChecks == \E s \in Slots : update_comment_checks(s)

UpdateCommentCommit == \E s \in Slots : update_comment_commit(s)

DeleteCommentFirst ==
  \E s \in Slots, u \in UserIds, id \in 1..(MaxComments + 1) :
    delete_comment_first(s, u, id)

DeleteCommentChecks == \E s \in Slots : delete_comment_checks(s)

DeleteCommentCommit == \E s \in Slots : delete_comment_commit(s)

UpdateFeedbackFirst ==
  \E s \in Slots, u \in UserIds, id \in 1..(MaxFeedback + 1), d \in RaceUpdateInputs :
    update_feedback_first(s, u, id, d)

UpdateFeedbackChecks == \E s \in Slots : update_feedback_checks(s)

UpdateFeedbackCommit == \E s \in Slots : update_feedback_commit(s)

ArchiveFeedbackFirst ==
  \E s \in Slots, u \in UserIds, id \in 1..(MaxFeedback + 1) :
    archive_feedback_first(s, u, id)

ArchiveFeedbackChecks == \E s \in Slots : archive_feedback_checks(s)

ArchiveFeedbackCommit == \E s \in Slots : archive_feedback_commit(s)

RaceNext ==
  \/ UpdateCommentFirst \/ UpdateCommentChecks \/ UpdateCommentCommit
  \/ DeleteCommentFirst \/ DeleteCommentChecks \/ DeleteCommentCommit
  \/ UpdateFeedbackFirst \/ UpdateFeedbackChecks \/ UpdateFeedbackCommit
  \/ ArchiveFeedbackFirst \/ ArchiveFeedbackChecks \/ ArchiveFeedbackCommit

RaceSpec == RaceInit /\ [][RaceNext]_vars

(* ================= claims ================= *)
(* A step of handler op: every step of Next sets resp to the request it    *)
(* handled; user and id name the principal and the row.                    *)
Handled(op) == resp'.op = op

ActiveUser(u) == ~users[u].disabled

(* C1: update_walk on an existing walk is refused with 403 exactly when    *)
(* the principal is neither the walk's creator nor its owner nor a         *)
(* Developer, and a refused update changes no table.                       *)
C1_UpdateWalkAllowedExactly ==
  [][(Handled("update_walk") /\ resp'.id \in DOMAIN walks /\ ActiveUser(resp'.user)) =>
       LET u == resp'.user
           w == walks[resp'.id]
           allowed == u \in {w.creator_id, w.owner_id} \/ users[u].role = "Developer"
       IN /\ (resp'.code = 403) <=> ~allowed
          /\ ~allowed => (tables' = tables /\ ~resp'.commit)]_vars

(* C1 witness: a Manager or Executive with no relation to the walk was     *)
(* refused.                                                                *)
C1_Witness ==
  /\ resp.op = "update_walk" /\ resp.code = 403
  /\ users[resp.user].role \in {"Manager", "Executive"}
  /\ resp.user \notin {walks[resp.id].creator_id, walks[resp.id].owner_id}

(* C2: update_feedback on an unarchived feedback is refused with 403       *)
(* exactly when the principal is neither the owner nor a Manager,          *)
(* Executive or Developer; being the creator does not count, and a refused *)
(* update changes no table.                                                *)
C2_UpdateFeedbackAllowedExactly ==
  [][(/\ Handled("update_feedback") /\ resp'.id \in DOMAIN feedback
      /\ ActiveUser(resp'.user) /\ ~feedback[resp'.id].is_archived) =>
       LET u == resp'.user
           f == feedback[resp'.id]
           allowed == u = f.owner_id
                      \/ users[u].role \in {"Manager", "Executive", "Developer"}
       IN /\ (resp'.code = 403) <=> ~allowed
          /\ ~allowed => (tables' = tables /\ ~resp'.commit)]_vars

(* C2 witness: a User who created the feedback, whose owner_id is null,    *)
(* was refused.                                                            *)
C2_Witness ==
  /\ resp.op = "update_feedback" /\ resp.code = 403
  /\ users[resp.user].role = "User"
  /\ feedback[resp.id].creator_id = resp.user
  /\ feedback[resp.id].owner_id = NULL

(* C3: update_feedback on an archived feedback fails with 400 "Cannot      *)
(* modify archived feedback." for every active principal, authorized or    *)
(* not, and changes no table.                                              *)
C3_UpdateArchivedFeedbackConflict ==
  [][(/\ Handled("update_feedback") /\ resp'.id \in DOMAIN feedback
      /\ ActiveUser(resp'.user) /\ feedback[resp'.id].is_archived) =>
       /\ resp'.code = 400
       /\ resp'.detail = "Cannot modify archived feedback."
       /\ tables' = tables /\ ~resp'.commit]_vars

(* C3 witness: the archived fault was returned to a User who is not the    *)
(* owner, whom the ownership check would have refused.                     *)
C3_Witness ==
  /\ resp.op = "update_feedback" /\ resp.code = 400
  /\ resp.detail = "Cannot modify archived feedback."
  /\ users[resp.user].role = "User"
  /\ feedback[resp.id].owner_id # resp.user

(* C4: update_walk on an archived walk fails with a 400 archived fault for *)
(* every active principal, and leaves every field of the walk unchanged.   *)
C4_UpdateArchivedWalkConflict ==
  [][(/\ Handled("update_walk") /\ resp'.id \in DOMAIN walks
      /\ ActiveUser(resp'.user) /\ walks[resp'.id].is_archived) =>
       /\ resp'.code = 400
       /\ walks'[resp'.id] = walks[resp'.id]]_vars

(* The comments of feedback f in a comments table. *)
CommentsOf(table, f) ==
  [c \in {i \in DOMAIN table : table[i].feedback_id = f} |-> table[c]]

(* C5: once a feedback is archived, no step changes its fields or adds,    *)
(* edits or deletes a comment of it.                                       *)
C5_ArchivedFeedbackFrozen ==
  [][\A f \in DOMAIN feedback :
       feedback[f].is_archived =>
         /\ feedback'[f] = feedback[f]
         /\ CommentsOf(comments', f) = CommentsOf(comments, f)]_vars

(* C6: update_comment by the comment's author, when the parent feedback is *)
(* archived now, fails with 400 "Cannot modify comments on an archived     *)
(* feedback item" and leaves the comment unchanged.                        *)
C6_AuthorEditOnArchivedConflict ==
  [][(/\ Handled("update_comment") /\ resp'.id \in DOMAIN comments
      /\ ActiveUser(resp'.user)
      /\ comments[resp'.id].author_id = resp'.user
      /\ feedback[comments[resp'.id].feedback_id].is_archived) =>
       /\ resp'.code = 400
       /\ resp'.detail = "Cannot modify comments on an archived feedback item"
       /\ tables' = tables /\ ~resp'.commit]_vars

(* C6 witness: the author was refused with the archived fault; the comment *)
(* was written while the feedback was unarchived (create_new_comment       *)
(* accepts no archived parent), so the feedback was archived after it.     *)
C6_Witness ==
  /\ resp.op = "update_comment" /\ resp.code = 400
  /\ resp.detail = "Cannot modify comments on an archived feedback item"
  /\ comments[resp.id].author_id = resp.user
  /\ feedback[comments[resp.id].feedback_id].is_archived

(* C7: update_comment by a principal who is not the author, when the       *)
(* parent feedback is archived, fails with the 400 archived fault, not     *)
(* with 403.                                                               *)
C7_NonAuthorEditOnArchivedConflict ==
  [][(/\ Handled("update_comment") /\ resp'.id \in DOMAIN comments
      /\ ActiveUser(resp'.user)
      /\ comments[resp'.id].author_id # resp'.user
      /\ feedback[comments[resp'.id].feedback_id].is_archived) =>
       /\ resp'.code = 400
       /\ resp'.detail = "Cannot modify comments on an archived feedback item"]_vars

(* Every tag id a create payload lists names a row of the tags table. *)
TagIdsExist(tag_ids) == \A i \in DOMAIN tag_ids : tag_ids[i] \in TagIds

(* C8: create_new_feedback naming a missing or archived walk, and          *)
(* create_new_comment naming a missing or archived feedback, fail with 404 *)
(* for every active principal and write nothing.  With the parent present  *)
(* and unarchived the outcome is never 404 or 403, whoever the principal   *)
(* is: a payload whose tag and owner ids exist is created (201), as one    *)
(* new row                                                                 *)
(* that records the principal as creator / author and the parent named.    *)
C8_CreateChildNeedsActiveParent ==
  [][/\ (Handled("create_new_feedback") /\ ActiveUser(resp'.user)) =>
          \A u \in {resp'.user}, d \in FeedbackCreateInputs :
            (d.walk_id = resp'.parent /\ create_new_feedback(u, d)) =>
            IF d.walk_id \notin DOMAIN walks \/ walks[d.walk_id].is_archived
            THEN resp'.code = 404 /\ tables' = tables /\ ~resp'.commit
            ELSE /\ resp'.code \notin {403, 404}
                 /\ (TagIdsExist(d.tags_id) /\ ~foreign_key_dangles(d.owner_id)) =>
                      /\ resp'.code = 201
                      /\ resp'.id \notin DOMAIN feedback
                      /\ DOMAIN feedback' = DOMAIN feedback \cup {resp'.id}
                      /\ \A f \in DOMAIN feedback : feedback'[f] = feedback[f]
                      /\ feedback'[resp'.id].creator_id = u
                      /\ feedback'[resp'.id].walk_id = d.walk_id
     /\ (Handled("create_new_comment") /\ ActiveUser(resp'.user)) =>
          IF resp'.parent \notin DOMAIN feedback \/ feedback[resp'.parent].is_archived
          THEN resp'.code = 404 /\ tables' = tables /\ ~resp'.commit
          ELSE /\ resp'.code = 201
               /\ resp'.id \notin DOMAIN comments
               /\ DOMAIN comments' = DOMAIN comments \cup {resp'.id}
               /\ \A c \in DOMAIN comments : comments'[c] = comments[c]
               /\ comments'[resp'.id].author_id = resp'.user
               /\ comments'[resp'.id].feedback_id = resp'.parent]_vars

(* C8 witness: a feedback create naming an existing, archived walk was     *)
(* answered 404, and no feedback exists.                                   *)
C8_Witness ==
  /\ resp.op = "create_new_feedback" /\ resp.code = 404
  /\ resp.parent \in DOMAIN walks
  /\ walks[resp.parent].is_archived
  /\ feedback = <<>>

(* The archive rule of the claims: creator, owner, or a Developer. *)
MayArchive(u, row) ==
  u \in {row.creator_id, row.owner_id} \/ users[u].role = "Developer"

(* C9: archive_walk and archive_feedback by an authorized principal on a   *)
(* row that is already archived answer 200 without a commit, and leave     *)
(* every table as it was (is_archived stays true).                         *)
C9_ArchiveIdempotent ==
  [][/\ (/\ Handled("archive_walk") /\ resp'.id \in DOMAIN walks
         /\ ActiveUser(resp'.user) /\ MayArchive(resp'.user, walks[resp'.id])
         /\ walks[resp'.id].is_archived) =>
          /\ resp'.code = 200 /\ ~resp'.commit
          /\ tables' = tables /\ walks'[resp'.id].is_archived
     /\ (/\ Handled("archive_feedback") /\ resp'.id \in DOMAIN feedback
         /\ ActiveUser(resp'.user) /\ MayArchive(resp'.user, feedback[resp'.id])
         /\ feedback[resp'.id].is_archived) =>
          /\ resp'.code = 200 /\ ~resp'.commit
          /\ tables' = tables /\ feedback'[resp'.id].is_archived]_vars

(* C9 witness: an archive of an already archived feedback succeeded        *)
(* without a write.                                                        *)
C9_Witness ==
  /\ resp.op = "archive_feedback" /\ resp.code = 200 /\ ~resp.commit
  /\ feedback[resp.id].is_archived

(* C10: archive_walk and archive_feedback on an existing row are refused   *)
(* with 403 exactly when the principal is neither creator nor owner nor a  *)
(* Developer, whether or not the row is already archived, and a refused    *)
(* archive changes no table.                                               *)
C10_ArchiveAllowedExactly ==
  [][/\ (/\ Handled("archive_walk") /\ resp'.id \in DOMAIN walks
         /\ ActiveUser(resp'.user)) =>
          /\ (resp'.code = 403) <=> ~MayArchive(resp'.user, walks[resp'.id])
          /\ (resp'.code = 403) => (tables' = tables /\ ~resp'.commit)
          /\ (resp'.code # 403) => (resp'.code = 200 /\ walks'[resp'.id].is_archived)
     /\ (/\ Handled("archive_feedback") /\ resp'.id \in DOMAIN feedback
         /\ ActiveUser(resp'.user)) =>
          /\ (resp'.code = 403) <=> ~MayArchive(resp'.user, feedback[resp'.id])
          /\ (resp'.code = 403) => (tables' = tables /\ ~resp'.commit)
          /\ (resp'.code # 403) => (resp'.code = 200 /\ feedback'[resp'.id].is_archived)]_vars

(* C10 witness: a Manager or Executive with no relation to an already      *)
(* archived feedback was refused.                                          *)
C10_Witness ==
  /\ resp.op = "archive_feedback" /\ resp.code = 403
  /\ users[resp.user].role \in {"Manager", "Executive"}
  /\ feedback[resp.id].is_archived
  /\ resp.user \notin {feedback[resp.id].creator_id, feedback[resp.id].owner_id}

(* C11: archival is one-way.  A walk or a feedback that is archived stays  *)
(* in its table and stays archived over every step, whatever the request,  *)
(* the principal or the update body (a body that sends is_archived: false  *)
(* included).                                                              *)
C11_ArchivedStaysArchived ==
  [][/\ \A w \in DOMAIN walks :
          walks[w].is_archived => (w \in DOMAIN walks' /\ walks'[w].is_archived)
     /\ \A f \in DOMAIN feedback :
          feedback[f].is_archived =>
            (f \in DOMAIN feedback' /\ feedback'[f].is_archived)]_vars

(* C11 witness: an update of an archived walk was committed (update_walk   *)
(* has no archived check), and the walk is still archived.                 *)
C11_Witness ==
  /\ resp.op = "update_walk" /\ resp.code = 200 /\ resp.commit
  /\ walks[resp.id].is_archived
  /\ walks[resp.id].status = "Completed"

(* The update rule of a feedback row f for principal u and body d, read    *)
(* off the feedback row and the users table alone.                         *)
UpdateFeedbackCode(u, f, d) ==
  IF f.is_archived THEN 400
  ELSE IF ~(u = f.owner_id \/ users[u].role \in {"Manager", "Executive", "Developer"})
    THEN 403
  ELSE IF "owner_id" \in DOMAIN d /\ d.owner_id \notin UserIds THEN 400
  ELSE 200

(* C12: archive_walk changes nothing but the is_archived flag of the walk  *)
(* it names: every feedback row (its is_archived included) and every       *)
(* comment is as before.  A feedback of an archived walk answers           *)
(* update_feedback, archive_feedback and create_new_comment by the rules   *)
(* that read the feedback row alone: the walk's flag plays no part.        *)
C12_ArchiveWalkLeavesFeedback ==
  [][/\ Handled("archive_walk") =>
          /\ feedback' = feedback /\ comments' = comments /\ users' = users
          /\ DOMAIN walks' = DOMAIN walks
          /\ \A w \in DOMAIN walks :
               walks'[w] = IF w = resp'.id /\ resp'.commit
                           THEN [walks[w] EXCEPT !.is_archived = TRUE]
                           ELSE walks[w]
     /\ (/\ Handled("update_feedback") /\ resp'.id \in DOMAIN feedback
         /\ ActiveUser(resp'.user)
         /\ walks[feedback[resp'.id].walk_id].is_archived) =>
          \A u \in {resp'.user}, id \in {resp'.id}, d \in FeedbackUpdateInputs :
            update_feedback(u, id, d) =>
            /\ resp'.code = UpdateFeedbackCode(u, feedback[id], d)
            /\ resp'.code = 200 =>
                 feedback'[id] = SetAttrs(feedback[id], model_dump(d, FeedbackUpdateFields))
     /\ (/\ Handled("archive_feedback") /\ resp'.id \in DOMAIN feedback
         /\ ActiveUser(resp'.user)
         /\ walks[feedback[resp'.id].walk_id].is_archived) =>
          /\ resp'.code = IF MayArchive(resp'.user, feedback[resp'.id]) THEN 200 ELSE 403
          /\ resp'.code = 200 => feedback'[resp'.id].is_archived
     /\ (/\ Handled("create_new_comment") /\ resp'.parent \in DOMAIN feedback
         /\ ActiveUser(resp'.user)
         /\ walks[feedback[resp'.parent].walk_id].is_archived) =>
          /\ resp'.code = IF feedback[resp'.parent].is_archived THEN 404 ELSE 201
          /\ resp'.code = 201 => resp'.id \in DOMAIN comments' \ DOMAIN comments]_vars

(* C12 witness: a comment was created on an unarchived feedback whose walk *)
(* is archived.                                                            *)
C12_Witness ==
  /\ resp.op = "create_new_comment" /\ resp.code = 201
  /\ ~feedback[resp.parent].is_archived
  /\ walks[feedback[resp.parent].walk_id].is_archived
  /\ resp.id \in DOMAIN comments

(* A body whose owner_id names no row of the users table. *)
UnknownOwner(d) == "owner_id" \in DOMAIN d /\ d.owner_id \notin UserIds

(* C13: update_walk and update_feedback with a body whose owner_id names   *)
(* no user change no table, whatever else the body carries; when the       *)
(* request passes the checks before the owner lookup (the row exists, the  *)
(* principal may update it, the feedback is unarchived) the answer is 400  *)
(* "User with owner_id does not exist.".                                   *)
C13_UnknownOwnerRejectsWholeUpdate ==
  [][/\ Handled("update_walk") =>
          \A u \in {resp'.user}, id \in {resp'.id}, d \in WalkUpdateInputs :
          (UnknownOwner(d) /\ update_walk(u, id, d)) =>
            /\ tables' = tables /\ ~resp'.commit
            /\ (/\ ActiveUser(u) /\ id \in DOMAIN walks
                /\ update_walk_authorized(u, walks[id])) =>
                 /\ resp'.code = 400
                 /\ resp'.detail = "User with owner_id does not exist."
     /\ Handled("update_feedback") =>
          \A u \in {resp'.user}, id \in {resp'.id}, d \in FeedbackUpdateInputs :
          (UnknownOwner(d) /\ update_feedback(u, id, d)) =>
            /\ tables' = tables /\ ~resp'.commit
            /\ (/\ ActiveUser(u) /\ id \in DOMAIN feedback
                /\ ~feedback[id].is_archived
                /\ update_feedback_authorized(u, feedback[id])) =>
                 /\ resp'.code = 400
                 /\ resp'.detail = "User with owner_id does not exist."]_vars

(* C13 witness: an update_feedback was refused for its owner_id, and the   *)
(* title the same body carried was not applied.                            *)
C13_Witness ==
  /\ resp.op = "update_feedback" /\ resp.code = 400
  /\ resp.detail = "User with owner_id does not exist."
  /\ feedback[resp.id].title = "t1"
  /\ feedback[resp.id].owner_id \in UserIds \cup {NULL}

(* C14: every Feedback output view of an anonymous feedback, in the body   *)
(* of a create response, a read or a listing, to whichever principal,      *)
(* carries no creator object and has creator_name "Anonymous".             *)
C14_AnonymousRendersWithoutCreator ==
  \A view \in RenderedFeedback :
    view.is_anonymous =>
      /\ "creator" \notin DOMAIN view
      /\ view.creator_name = "Anonymous"

(* C14 witness: an anonymous feedback was read by its own creator. *)
C14_Witness ==
  /\ resp.op = "get_specific_feedback" /\ resp.code = 200
  /\ feedback[resp.id].is_anonymous
  /\ feedback[resp.id].creator_id = resp.user
  /\ RenderedFeedback # {}

C16_DeleteWalkAllowedExactly ==
  [][(Handled("delete_walk") /\ ActiveUser(resp'.user)) =>
       IF resp'.id \notin DOMAIN walks THEN resp'.code = 404
       ELSE IF resp'.user \in {walks[resp'.id].creator_id, walks[resp'.id].owner_id}
         THEN resp'.code = 204 /\ resp'.id \notin DOMAIN walks'
       ELSE resp'.code = 403 /\ walks' = walks]_vars

(* C17: delete_comment on an existing comment is refused with 403 exactly  *)
(* when the principal is neither the comment's author nor a Developer, and *)
(* the refused delete changes no table; otherwise it answers 204 and the   *)
(* comment is gone from the table.  A delete_comment or update_comment of  *)
(* an id that names no comment (a deleted one included) answers 404.       *)
C17_DeleteCommentAllowedExactly ==
  [][/\ (/\ Handled("delete_comment") /\ resp'.id \in DOMAIN comments
         /\ ActiveUser(resp'.user)) =>
          LET u == resp'.user
              allowed == comments[resp'.id].author_id = u \/ users[u].role = "Developer"
          IN /\ (resp'.code = 403) <=> ~allowed
             /\ ~allowed => (tables' = tables /\ ~resp'.commit)
             /\ allowed =>
                  /\ resp'.code = 204
                  /\ comments' = Delete(comments, resp'.id)
                  /\ resp'.id \notin DOMAIN comments'
     /\ (/\ resp'.op \in {"delete_comment", "update_comment"}
         /\ resp'.id \notin DOMAIN comments /\ ActiveUser(resp'.user)) =>
          resp'.code = 404 /\ tables' = tables]_vars

(* C17 witness: the Manager who owns the parent feedback, and did not      *)
(* write the comment, was refused, and the comment is still there.         *)
C17_Witness ==
  /\ resp.op = "delete_comment" /\ resp.code = 403
  /\ resp.id \in DOMAIN comments
  /\ users[resp.user].role = "Manager"
  /\ feedback[comments[resp.id].feedback_id].owner_id = resp.user
  /\ comments[resp.id].author_id # resp.user

(* C18: every handler of the walks, feedback, comments and users routers   *)
(* (create, read, update, archive, delete, listing) answers a disabled     *)
(* principal 400 "Inactive user", whatever row the request names and       *)
(* whatever the principal's role, and changes no table.  (A walk delete    *)
(* reaches no handler: C16.)                                               *)
C18_InactiveRejectedFirst ==
  [][(/\ resp'.op \in {"create_new_walk", "get_specific_walk", "archive_walk",
                       "update_walk", "create_new_feedback", "get_specific_feedback",
                       "archive_feedback", "update_feedback", "create_new_comment",
                       "update_comment", "delete_comment", "read_my_walks",
                       "read_my_feedback"}
      /\ ~ActiveUser(resp'.user)) =>
       /\ resp'.code = 400
       /\ resp'.detail = "Inactive user"
       /\ tables' = tables /\ ~resp'.commit]_vars

(* C18 witness: a disabled Developer asked to archive an existing feedback *)
(* that is already archived (an active Developer is answered 200), and was *)
(* answered with the inactive fault.                                       *)
C18_Witness ==
  /\ resp.op = "archive_feedback" /\ resp.code = 400
  /\ resp.detail = "Inactive user"
  /\ users[resp.user].disabled /\ users[resp.user].role = "Developer"
  /\ resp.id \in DOMAIN feedback /\ feedback[resp.id].is_archived

(* C19: a request is answered for a principal, or with 401 "Could not      *)
(* validate credentials": a signed token whose subject names no user is    *)
(* refused with that fault, and the handler does not run.                  *)
C19_UnknownSubjectRejected ==
  [][Handled("read_users_me") =>
       \/ resp'.code = 200 /\ resp'.user \in UserIds
       \/ resp'.code = 401 /\ resp'.detail = "Could not validate credentials"]_vars

(* The table an update, archive or delete handler looks its row up in. *)
TableOf(op) ==
  IF op \in {"update_walk", "archive_walk"} THEN walks
  ELSE IF op \in {"update_feedback", "archive_feedback"} THEN feedback
  ELSE comments

C21_ReadArchivedFeedbackNotFound ==
  [][(/\ Handled("get_specific_feedback") /\ resp'.id \in DOMAIN feedback
      /\ ActiveUser(resp'.user)) =>
       IF feedback[resp'.id].is_archived
       THEN resp'.code = 404 /\ RenderedFeedbackIds' = {}
       ELSE resp'.code = 200 /\ RenderedFeedbackIds' = {resp'.id}]_vars

(* C21 witness: the creator of an archived feedback read it by id and was  *)
(* answered 404.                                                           *)
C21_Witness ==
  /\ resp.op = "get_specific_feedback" /\ resp.code = 404
  /\ resp.id \in DOMAIN feedback
  /\ feedback[resp.id].is_archived
  /\ feedback[resp.id].creator_id = resp.user

(* The ids a list of tag ids names. *)
Listed(tag_ids) == {tag_ids[i] : i \in DOMAIN tag_ids}

(* C22: create_new_feedback on an unarchived walk with a list of tag ids   *)
(* is rejected with 400 and stores nothing when a listed id names no tag;  *)
(* otherwise the new feedback's tags are exactly the listed ids, a         *)
(* repeated id counting once.                                              *)
C22_CreateFeedbackTags ==
  [][(Handled("create_new_feedback") /\ ActiveUser(resp'.user)) =>
       \A u \in {resp'.user}, d \in FeedbackCreateInputs :
         (/\ d.walk_id = resp'.parent /\ d.tags_id # <<>>
          /\ ~foreign_key_dangles(d.owner_id)
          /\ active_walk_found(d.walk_id) /\ create_new_feedback(u, d)) =>
           IF \E t \in Listed(d.tags_id) : t \notin TagIds
           THEN /\ resp'.code = 400
                /\ resp'.detail = "One or more provided tag IDs are invalid."
                /\ tables' = tables /\ ~resp'.commit
           ELSE /\ resp'.code = 201
                /\ feedback'[resp'.id].tags = Listed(d.tags_id)]_vars

(* C22 witness: a feedback was created from a list that repeats a tag id;  *)
(* its tag set holds that tag once.                                        *)
C22_Witness ==
  /\ resp.op = "create_new_feedback" /\ resp.code = 201
  /\ feedback[resp.id].tags = {1}

(* C23: update_feedback, by a principal who may update the unarchived      *)
(* feedback, with a body that lists tag ids: rejected with 400 and nothing *)
(* changed when a listed id names no tag; otherwise the feedback's tags    *)
(* after the update are exactly the listed ids.                            *)
C23_UpdateFeedbackTags ==
  [][(/\ Handled("update_feedback") /\ resp'.id \in DOMAIN feedback
      /\ ActiveUser(resp'.user)) =>
       \A u \in {resp'.user}, id \in {resp'.id}, d \in FeedbackUpdateInputs :
         (/\ "tag_ids" \in DOMAIN d
          /\ ~feedback[id].is_archived
          /\ update_feedback_authorized(u, feedback[id])
          /\ update_feedback(u, id, d)) =>
           IF \E t \in Listed(d.tag_ids) : t \notin TagIds
           THEN resp'.code = 400 /\ tables' = tables
           ELSE resp'.code = 200 /\ feedback'[id].tags = Listed(d.tag_ids)]_vars

(* C24: in every reachable state the creator_id and owner_id of every walk *)
(* and the creator_id and the non-null owner_id of every feedback name a   *)
(* row of the users table.                                                 *)
C24_ReferenceIntegrity ==
  /\ \A w \in DOMAIN walks :
       walks[w].creator_id \in UserIds /\ walks[w].owner_id \in UserIds
  /\ \A f \in DOMAIN feedback :
       /\ feedback[f].creator_id \in UserIds
       /\ feedback[f].owner_id \in UserIds \cup {NULL}

(* C25: in every reachable state the votes of every feedback are >= 0. *)
C25_VotesNonNegative ==
  \A f \in DOMAIN feedback : feedback[f].votes >= 0

(* C26: no step changes the creator_id of a walk, the creator_id or        *)
(* walk_id of a feedback, or the author_id or feedback_id of a comment,    *)
(* whatever the body sends; a create records the requesting principal as   *)
(* creator / author.  An update may change owner_id.                       *)
C26_OriginImmutable ==
  [][/\ \A w \in DOMAIN walks \cap DOMAIN walks' :
          walks'[w].creator_id = walks[w].creator_id
     /\ \A f \in DOMAIN feedback \cap DOMAIN feedback' :
          /\ feedback'[f].creator_id = feedback[f].creator_id
          /\ feedback'[f].walk_id = feedback[f].walk_id
     /\ \A c \in DOMAIN comments \cap DOMAIN comments' :
          /\ comments'[c].author_id = comments[c].author_id
          /\ comments'[c].feedback_id = comments[c].feedback_id
     /\ \A w \in DOMAIN walks' \ DOMAIN walks : walks'[w].creator_id = resp'.user
     /\ \A f \in DOMAIN feedback' \ DOMAIN feedback :
          feedback'[f].creator_id = resp'.user
     /\ \A c \in DOMAIN comments' \ DOMAIN comments :
          comments'[c].author_id = resp'.user]_vars

(* C26 witness: an update whose body also sent creator_id reassigned the   *)
(* owner of a walk and left its creator.                                   *)
C26_Witness ==
  /\ resp.op = "update_walk" /\ resp.code = 200
  /\ walks[resp.id].owner_id = 2
  /\ walks[resp.id].creator_id \notin {2, 3}

(* C27: a request on a comment whose row a delete_comment removed after    *)
(* the request fetched it ends, at its own commit, with 404 Not Found, and *)
(* the comment stays deleted.                                              *)
C27_DeleteRaceNotFound ==
  [][\A s \in Slots :
       (/\ sessions[s].pc = "checked" /\ sessions'[s].pc = "done"
        /\ sessions[s].op \in {"update_comment", "delete_comment"}
        /\ sessions[s].id \notin DOMAIN comments) =>
         /\ resp'.code = 404
         /\ sessions[s].id \notin DOMAIN comments']_vars

(* C28: once the archive of a feedback is committed, no step changes a     *)
(* field of the feedback or the text of one of its comments, whichever way *)
(* the fetch, check and commit steps of the updates and of the archive     *)
(* interleave.                                                             *)
C28_ArchivedFeedbackFrozen ==
  [][\A f \in DOMAIN feedback :
       feedback[f].is_archived =>
         /\ feedback'[f] = feedback[f]
         /\ \A c \in DOMAIN comments \cap DOMAIN comments' :
              comments[c].feedback_id = f =>
                comments'[c].text = comments[c].text]_vars

(* C29: no step changes the is_anonymous flag of a feedback, whatever the  *)
(* request, the principal or the body (a body that sends is_anonymous      *)
(* included): a feedback created anonymous stays anonymous.                *)
C29_AnonymousFixedAtCreation ==
  [][\A f \in DOMAIN feedback \cap DOMAIN feedback' :
       feedback'[f].is_anonymous = feedback[f].is_anonymous]_vars

(* C29 witness: an update of an anonymous feedback was committed, and the  *)
(* feedback is still anonymous.                                            *)
C29_Witness ==
  /\ resp.op = "update_feedback" /\ resp.code = 200 /\ resp.commit
  /\ feedback[resp.id].is_anonymous

(* C30: no read returns an archived feedback: the body of a                *)
(* get_specific_feedback, read_my_feedback, get_specific_walk or           *)
(* read_my_walks response holds the view of no feedback whose is_archived  *)
(* is true.                                                                *)
C30_ReadsHideArchivedFeedback ==
  resp.op \in {"get_specific_feedback", "read_my_feedback", "get_specific_walk",
               "read_my_walks"} =>
    \A f \in RenderedFeedbackIds : ~feedback[f].is_archived
====
